---- MODULE Spec2Model ----
(***************************************************************************)
(* A model of validate.py: the validate() client of the W3C "nu" markup    *)
(* validator and the module-level batch loop that runs it over the files   *)
(* of the working directory.                                               *)
(*                                                                         *)
(* Python strings and byte strings are TLA+ strings.  TLA+ strings hold    *)
(* ASCII only, so the two typographic quotes of the message literals       *)
(* (U+201C, U+201D) are written LDQ and RDQ.                               *)
(***************************************************************************)
EXTENDS Integers, Sequences, FiniteSets, TLC

VARIABLES entries, disk, web, service,
          pc, caller, i, file_name, filename, files,
          r, result, messages, j, trace, fault

vars == <<entries, disk, web, service,
          pc, caller, i, file_name, filename, files,
          r, result, messages, j, trace, fault>>

envVars == <<entries, disk, web, service>>

(***************************************************************************)
(* Bounds of the model.                                                    *)
(***************************************************************************)
MaxEntries == 2
MaxMsgs == 3

(***************************************************************************)
(* Python string primitives.                                               *)
(***************************************************************************)
Min(a, b) == IF a < b THEN a ELSE b

\* s[a:b] for 0 <= a <= b: the slice stops at the end of a shorter string.
Slice(s, a, b) ==
    IF a >= Min(b, Len(s)) THEN "" ELSE SubSeq(s, a + 1, Min(b, Len(s)))

\* s.startswith(p)
StartsWith(s, p) == Len(p) <= Len(s) /\ Slice(s, 0, Len(p)) = p

\* s.endswith(p)
EndsWith(s, p) == Len(p) <= Len(s) /\ Slice(s, Len(s) - Len(p), Len(s)) = p

Digit(d) == CASE d = 0 -> "0" [] d = 1 -> "1" [] d = 2 -> "2" [] d = 3 -> "3"
              [] d = 4 -> "4" [] d = 5 -> "5" [] d = 6 -> "6" [] d = 7 -> "7"
              [] d = 8 -> "8" [] d = 9 -> "9"

\* "%d" % n for n >= 0
RECURSIVE FormatD(_)
FormatD(n) == IF n < 10 THEN Digit(n) ELSE FormatD(n \div 10) \o Digit(n % 10)

(***************************************************************************)
(* Literals of the program.                                                *)
(***************************************************************************)
LDQ == "{"
RDQ == "}"

HTML_VALIDATOR_URL == "http://validator.w3.org/nu/?out=json"

AltLiteral ==
    "An " \o LDQ \o "img" \o RDQ \o " element must have an "
          \o LDQ \o "alt" \o RDQ \o " attribute"

NameLiteral == "The " \o LDQ \o "name" \o RDQ \o " attribute is obsolete"

Prefixes == {"3-5", "4t", "5t"}

(***************************************************************************)
(* validate(): the target test and the file object.                        *)
(***************************************************************************)
\* Mutant of IsRemote: the scheme is tested without its "://".
IsRemoteLoose(name) == StartsWith(name, "http")

IsRemote(name) == StartsWith(name, "http://") \/ StartsWith(name, "https://")

\* tempfile.TemporaryFile() / open(filename, "rb")
NewFile(bytes) == [content |-> bytes, pos |-> 0, closed |-> FALSE]

\* f.write(bytes)
FileWrite(h, bytes) ==
    [h EXCEPT !.content = Slice(h.content, 0, h.pos) \o bytes
                          \o Slice(h.content, h.pos + Len(bytes), Len(h.content)),
              !.pos = h.pos + Len(bytes)]

\* f.seek(0)
FileSeek0(h) == [h EXCEPT !.pos = 0]

\* f.read(), as requests does to build the multipart body
FileRead(h) == Slice(h.content, h.pos, Len(h.content))

\* f.read(), as requests does: the position moves to the end
FileAtEnd(h) == [h EXCEPT !.pos = Len(h.content)]

FileClose(h) == [h EXCEPT !.closed = TRUE]

\* the with block's exit when its body completes
ExitNormally(h) == FileClose(h)

\* Mutant of ExitRaising: the file is closed by hand after the POST, not by with.
ExitRaisingLeak(h) == h

\* the with block's exit when its body raises
ExitRaising(h) == FileClose(h)

\* Mutant of Buffered: the buffer is not rewound.
BufferedNoSeek(h, bytes) == FileWrite(h, bytes)

\* lines 27-29: the response body is written to the buffer, which is rewound
Buffered(h, bytes) == FileSeek0(FileWrite(h, bytes))

(***************************************************************************)
(* The batch driver's pure parts.                                          *)
(***************************************************************************)
\* file_name.endswith(".html") and file_name[0:3] in ["3-5", "4t", "5t"]
Selected(name) == EndsWith(name, ".html") /\ Slice(name, 0, 3) \in Prefixes

\* Mutant of Suppressed: the second notice is forgotten.
SuppressedAltOnly(m) == StartsWith(m.message, AltLiteral)

\* m["message"].startswith(<alt notice>) or m["message"].startswith(<name notice>)
Suppressed(m) ==
    StartsWith(m.message, AltLiteral) \/ StartsWith(m.message, NameLiteral)

\* "Type: %(type)s, Line: %(lastLine)d, Description: %(message)s" % m
FormatLine(m) ==
    "Type: " \o m.type \o ", Line: " \o FormatD(m.lastLine)
             \o ", Description: " \o m.message

ProcessingLine(name) == "Processing " \o name

(***************************************************************************)
(* Observable events, in the order the program causes them: a line on the  *)
(* console, or an HTTP call with the status of its answer (0: no answer).  *)
(***************************************************************************)
PrintEv(line) ==
    [op |-> "print", url |-> "", arg |-> line, data |-> "", status |-> 0]

\* requests.get(url, verify=False)
GetEv(url, st) ==
    [op |-> "GET", url |-> url, arg |-> "", data |-> "", status |-> st]

\* requests.post(HTML_VALIDATOR_URL, files={"file": (name, f, "text/html")}, ...)
PostEv(name, bytes, st) ==
    [op |-> "POST", url |-> HTML_VALIDATOR_URL, arg |-> name, data |-> bytes,
     status |-> st]

(***************************************************************************)
(* The environment: the directory listing, the files, the web and the      *)
(* validator service.                                                      *)
(***************************************************************************)
Names == {"3-5a.html", "3-5.html", "4ty.html", "5tz.html", "other.html",
          "3-5a.txt"}

Urls == {"http://example.com/page.html", "https://example.com/page.html"}

\* Local names handed to validate() directly; the last two only resemble URLs.
DirectNames == {"3-5a.html", "page.html", "http:/page.html", "https.html"}

Targets == Names \cup Urls \cup DirectNames

Msg(t, l, text) == [type |-> t, lastLine |-> l, message |-> text]

AltMsg == Msg("error", 1, AltLiteral \o ", except under certain conditions.")
NameMsg == Msg("info", 12, NameLiteral)
BadTagMsg == Msg("error", 2, "Bad tag")
\* A message that only quotes one of the two notices.
QuotingMsg == Msg("error", 30, "Stray text: " \o AltLiteral)

MsgUniverse == {AltMsg, BadTagMsg, QuotingMsg}

\* The "messages" of a response: up to MaxMsgs different messages, in any order.
MsgSeqs ==
    UNION { { q \in [1..n -> MsgUniverse] :
                \A a, b \in 1..n : q[a] = q[b] => a = b } : n \in 0..MaxMsgs }

\* What the service answers to a POST: no answer at all (neterr), or a status
\* and a body that either is not JSON or decodes to an object.
PostAnswer(ne, st, dec, hm, ms) ==
    [neterr |-> ne, status |-> st, decodable |-> dec, hasMessages |-> hm,
     messages |-> ms]

PostAnswers ==
    { PostAnswer(TRUE, 0, FALSE, FALSE, <<>>),
      PostAnswer(FALSE, 200, FALSE, FALSE, <<>>),
      PostAnswer(FALSE, 502, FALSE, FALSE, <<>>),
      PostAnswer(FALSE, 200, TRUE, FALSE, <<>>),
      PostAnswer(FALSE, 500, TRUE, TRUE, <<NameMsg, BadTagMsg>>) }
    \cup { PostAnswer(FALSE, 200, TRUE, TRUE, ms) : ms \in MsgSeqs }

NoAnswer == PostAnswer(TRUE, 0, FALSE, FALSE, <<>>)

GetAnswer(ne, st, bytes) == [neterr |-> ne, status |-> st, content |-> bytes]

Contents == {"", "<p>", "<img>"}

GetAnswers ==
    { GetAnswer(TRUE, 0, "") }
    \cup { GetAnswer(FALSE, st, c) : st \in {200, 404}, c \in Contents }

DiskEntry(rd, bytes) == [readable |-> rd, content |-> bytes]

PageOf(name) == "<title>" \o name \o "</title>"

\* One file of the batch: unreadable, or readable with an answer of the service.
Scenarios ==
    { [readable |-> FALSE, answer |-> NoAnswer] }
    \cup { [readable |-> TRUE, answer |-> a] : a \in PostAnswers }

\* os.listdir("."): the entries of a directory, each once, in any order.
Listings ==
    UNION { { l \in [1..n -> Names] : \A a, b \in 1..n : l[a] = l[b] => a = b }
            : n \in 0..MaxEntries }

Range(s) == { s[k] : k \in DOMAIN s }

(***************************************************************************)
(* Initial states.                                                         *)
(*   entries   what os.listdir(".") yields, in its order                   *)
(*   disk      the files by name                                           *)
(*   web       the answer to a GET of each URL                             *)
(*   service   the validator's answer to the POST of each target           *)
(*   pc        the statement about to run                                  *)
(*   caller    "batch": validate() was called by line 53; "direct": by an  *)
(*             importer of the module                                      *)
(*   i         entries consumed by the for loop                            *)
(*   files     the file objects created so far; the last one is f          *)
(*   r         the response of the POST                                    *)
(*   result    what validate() returned                                    *)
(*   j         messages consumed by the inner loop                         *)
(*   trace     the observable events so far                                *)
(*   fault     the uncaught exception that ended the process, if any       *)
(***************************************************************************)
NoResponse == [status |-> 0, decodable |-> FALSE, hasMessages |-> FALSE,
               messages |-> <<>>]

NoResult == [kind |-> "none", hasMessages |-> FALSE, messages |-> <<>>]

InitLocals ==
    /\ i = 0
    /\ file_name = ""
    /\ files = <<>>
    /\ r = NoResponse
    /\ result = NoResult
    /\ messages = <<>>
    /\ j = 0
    /\ trace = <<>>
    /\ fault = ""

\* The script is run in a directory.  Only the files the loop submits are read,
\* so only they vary.
Init ==
    /\ entries \in Listings
    /\ \E g \in [{n \in Range(entries) : Selected(n)} -> Scenarios] :
          /\ disk = [n \in Targets |->
                        IF n \in DOMAIN g
                        THEN DiskEntry(g[n].readable, PageOf(n))
                        ELSE DiskEntry(TRUE, PageOf(n))]
          /\ service = [n \in Targets |->
                           IF n \in DOMAIN g THEN g[n].answer ELSE NoAnswer]
    /\ web = [u \in Targets |-> GetAnswer(TRUE, 0, "")]
    /\ pc = "for"
    /\ caller = "batch"
    /\ filename = ""
    /\ InitLocals

\* validate(target) is called on its own, with any target.
InitValidate ==
    /\ entries = <<>>
    /\ filename \in Urls \cup DirectNames
    /\ \E d \in {DiskEntry(FALSE, "")} \cup {DiskEntry(TRUE, c) : c \in Contents} :
          disk = [n \in Targets |-> IF n = filename THEN d ELSE DiskEntry(FALSE, "")]
    /\ \E a \in GetAnswers :
          web = [u \in Targets |->
                    IF u = filename THEN a ELSE GetAnswer(TRUE, 0, "")]
    /\ \E a \in PostAnswers :
          service = [n \in Targets |-> IF n = filename THEN a ELSE NoAnswer]
    /\ pc = "open"
    /\ caller = "direct"
    /\ InitLocals

(***************************************************************************)
(* An uncaught exception: nothing handles it, the process ends.            *)
(***************************************************************************)
\* Mutant of Raise: the batch loop catches the exception and goes on.
RaiseIsolated(kind) ==
    /\ fault' = kind
    /\ pc' = IF caller = "batch" THEN "for" ELSE "aborted"

Raise(kind) ==
    /\ fault' = kind
    /\ pc' = "aborted"

f == Len(files)

(***************************************************************************)
(* validate(filename)                                                      *)
(***************************************************************************)
\* lines 21-24
Open ==
    /\ pc = "open"
    /\ IF IsRemote(filename)
       THEN /\ files' = Append(files, NewFile(""))
            /\ pc' = "get"
            /\ fault' = fault
       ELSE IF disk[filename].readable
       THEN /\ files' = Append(files, NewFile(disk[filename].content))
            /\ pc' = "post"
            /\ fault' = fault
       ELSE /\ Raise("OSError")
            /\ files' = files
    /\ UNCHANGED <<envVars, caller, i, file_name, filename, r, result,
                   messages, j, trace>>

\* lines 26-29
Get ==
    /\ pc = "get"
    /\ LET a == web[filename] IN
         /\ trace' = Append(trace, GetEv(filename, a.status))
         /\ IF a.neterr
            THEN /\ files' = [files EXCEPT ![f] = ExitRaising(@)]
                 /\ Raise("ConnectionError")
            ELSE /\ files' = [files EXCEPT ![f] = Buffered(@, a.content)]
                 /\ pc' = "post"
                 /\ fault' = fault
    /\ UNCHANGED <<envVars, caller, i, file_name, filename, r, result,
                   messages, j>>

\* lines 37-44, and the end of the with block
Post ==
    /\ pc = "post"
    /\ LET a == service[filename] IN
         /\ trace' = Append(trace, PostEv(filename, FileRead(files[f]), a.status))
         /\ IF a.neterr
            THEN /\ files' = [files EXCEPT ![f] = ExitRaising(FileAtEnd(@))]
                 /\ Raise("ConnectionError")
                 /\ r' = r
            ELSE /\ files' = [files EXCEPT ![f] = ExitNormally(FileAtEnd(@))]
                 /\ r' = [status |-> a.status, decodable |-> a.decodable,
                          hasMessages |-> a.hasMessages, messages |-> a.messages]
                 /\ pc' = "json"
                 /\ fault' = fault
    /\ UNCHANGED <<envVars, caller, i, file_name, filename, result,
                   messages, j>>

\* Mutant of ReturnJson: the docstring's "" is returned when the body is not JSON.
ReturnJsonDocstring ==
    /\ pc = "json"
    /\ result' = IF r.decodable
                 THEN [kind |-> "json", hasMessages |-> r.hasMessages,
                       messages |-> r.messages]
                 ELSE [kind |-> "empty", hasMessages |-> FALSE, messages |-> <<>>]
    /\ pc' = IF caller = "batch" THEN "subscript" ELSE "returned"
    /\ UNCHANGED <<envVars, caller, i, file_name, filename, files, r,
                   messages, j, trace, fault>>

\* line 46: return r.json()
ReturnJson ==
    /\ pc = "json"
    /\ IF r.decodable
       THEN /\ result' = [kind |-> "json", hasMessages |-> r.hasMessages,
                          messages |-> r.messages]
            /\ pc' = IF caller = "batch" THEN "subscript" ELSE "returned"
            /\ fault' = fault
       ELSE /\ Raise("JSONDecodeError")
            /\ result' = result
    /\ UNCHANGED <<envVars, caller, i, file_name, filename, files, r,
                   messages, j, trace>>

(***************************************************************************)
(* The batch loop.                                                         *)
(***************************************************************************)
\* Mutant of ForSelect: the progress line is not printed.
ForSelectSilent ==
    /\ pc = "for"
    /\ i < Len(entries)
    /\ Selected(entries[i + 1])
    /\ i' = i + 1
    /\ file_name' = entries[i + 1]
    /\ filename' = entries[i + 1]
    /\ pc' = "open"
    /\ UNCHANGED <<envVars, caller, files, r, result, messages, j, trace, fault>>

\* lines 50-53: the next entry is selected, announced and handed to validate()
ForSelect ==
    /\ pc = "for"
    /\ i < Len(entries)
    /\ Selected(entries[i + 1])
    /\ i' = i + 1
    /\ file_name' = entries[i + 1]
    /\ trace' = Append(trace, PrintEv(ProcessingLine(entries[i + 1])))
    /\ filename' = entries[i + 1]
    /\ pc' = "open"
    /\ UNCHANGED <<envVars, caller, files, r, result, messages, j, fault>>

\* Mutant of ForSkip: an entry that is not selected ends the loop.
ForSkipBreak ==
    /\ pc = "for"
    /\ i < Len(entries)
    /\ ~Selected(entries[i + 1])
    /\ i' = i + 1
    /\ file_name' = entries[i + 1]
    /\ pc' = "exit"
    /\ UNCHANGED <<envVars, caller, filename, files, r, result, messages,
                   j, trace, fault>>

\* lines 50-51: the next entry is not selected
ForSkip ==
    /\ pc = "for"
    /\ i < Len(entries)
    /\ ~Selected(entries[i + 1])
    /\ i' = i + 1
    /\ file_name' = entries[i + 1]
    /\ UNCHANGED <<envVars, pc, caller, filename, files, r, result, messages,
                   j, trace, fault>>

\* line 50: no entry is left, the script ends
ForDone ==
    /\ pc = "for"
    /\ i = Len(entries)
    /\ pc' = "exit"
    /\ UNCHANGED <<envVars, caller, i, file_name, filename, files, r, result,
                   messages, j, trace, fault>>

\* line 53: validate(file_name)["messages"]
GetMessages ==
    /\ pc = "subscript"
    /\ IF result.hasMessages
       THEN /\ messages' = result.messages
            /\ j' = 0
            /\ pc' = "msgs"
            /\ fault' = fault
       ELSE /\ Raise("KeyError")
            /\ UNCHANGED <<messages, j>>
    /\ UNCHANGED <<envVars, caller, i, file_name, filename, files, r, result,
                   trace>>

\* lines 54-57: the next message is printed
MsgPrint ==
    /\ pc = "msgs"
    /\ j < Len(messages)
    /\ ~Suppressed(messages[j + 1])
    /\ trace' = Append(trace, PrintEv(FormatLine(messages[j + 1])))
    /\ j' = j + 1
    /\ UNCHANGED <<envVars, pc, caller, i, file_name, filename, files, r,
                   result, messages, fault>>

\* lines 54-56: the next message is one of the two notices
MsgSuppress ==
    /\ pc = "msgs"
    /\ j < Len(messages)
    /\ Suppressed(messages[j + 1])
    /\ j' = j + 1
    /\ UNCHANGED <<envVars, pc, caller, i, file_name, filename, files, r,
                   result, messages, trace, fault>>

\* line 54: no message is left
MsgDone ==
    /\ pc = "msgs"
    /\ j = Len(messages)
    /\ pc' = "for"
    /\ UNCHANGED <<envVars, caller, i, file_name, filename, files, r, result,
                   messages, j, trace, fault>>

(***************************************************************************)
(* Specifications.  No entry of a directory starts with "http://" (a name  *)
(* holds no "/"), so the batch run never fetches.                          *)
(***************************************************************************)
Next ==
    \/ ForSelect \/ ForSkip \/ ForDone
    \/ Open \/ Post \/ ReturnJson
    \/ GetMessages \/ MsgPrint \/ MsgSuppress \/ MsgDone

Spec == Init /\ [][Next]_vars

NextValidate == Open \/ Get \/ Post \/ ReturnJson

SpecValidate == InitValidate /\ [][NextValidate]_vars

\* Either way of running the code: as the script, or validate() called directly.
NextBoth ==
    \/ ForSelect \/ ForSkip \/ ForDone
    \/ Open \/ Get \/ Post \/ ReturnJson
    \/ GetMessages \/ MsgPrint \/ MsgSuppress \/ MsgDone

SpecBoth == (Init \/ InitValidate) /\ [][NextBoth]_vars

(***************************************************************************)
(* Reading the trace.                                                      *)
(***************************************************************************)
IsPrint(e) == e.op = "print"
IsGet(e) == e.op = "GET"
IsPost(e) == e.op = "POST"
IsProcessing(e) == IsPrint(e) /\ SubSeq(e.arg, 1, Min(11, Len(e.arg))) = "Processing "
IsDiagnostic(e) == IsPrint(e) /\ ~IsProcessing(e)

Ended == pc \in {"returned", "exit", "aborted"}

\* The index of the last "Processing" line, 0 if there is none.
LastProcessing ==
    LET S == { k \in DOMAIN trace : IsProcessing(trace[k]) }
    IN  IF S = {} THEN 0 ELSE CHOOSE k \in S : \A l \in S : l <= k

\* The lines printed since the last "Processing" line.
LinesOfCurrentFile ==
    LET tail == SubSeq(trace, LastProcessing + 1, Len(trace))
        ps == SelectSeq(tail, IsPrint)
    IN  [k \in DOMAIN ps |-> ps[k].arg]

(***************************************************************************)
(* C1.  A directory entry is submitted to the validator if and only if its *)
(* name ends with ".html" and its first three characters are "3-5" or its  *)
(* first two are "4t" or "5t".                                             *)
(***************************************************************************)
C1_ClaimedFilter(name) ==
    /\ Len(name) >= 5
    /\ SubSeq(name, Len(name) - 4, Len(name)) = ".html"
    /\ \/ SubSeq(name, 1, 3) = "3-5"
       \/ SubSeq(name, 1, 2) \in {"4t", "5t"}

C1_SelectionAsClaimed ==
    \A k \in 1..i :
        (\E e \in Range(trace) : e = PrintEv("Processing " \o entries[k]))
            <=> C1_ClaimedFilter(entries[k])

(***************************************************************************)
(* C2.  The diagnostic lines printed for a file are the messages of the    *)
(* service's answer, in its order, less those whose text starts with one   *)
(* of the two notices; each one left is printed as one line                *)
(* "Type: <type>, Line: <lastLine>, Description: <message>".               *)
(***************************************************************************)
C2_Kept(m) ==
    /\ ~(Len(m.message) >= Len(AltLiteral)
         /\ SubSeq(m.message, 1, Len(AltLiteral)) = AltLiteral)
    /\ ~(Len(m.message) >= Len(NameLiteral)
         /\ SubSeq(m.message, 1, Len(NameLiteral)) = NameLiteral)

C2_Line(m) ==
    "Type: " \o m.type \o ", Line: " \o ToString(m.lastLine)
             \o ", Description: " \o m.message

C2_Expected(ms) ==
    LET kept == SelectSeq(ms, C2_Kept)
    IN  [k \in DOMAIN kept |-> C2_Line(kept[k])]

C2_FilteredInOrder ==
    pc = "msgs" =>
        /\ messages = service[file_name].messages
        /\ LinesOfCurrentFile = C2_Expected(SubSeq(messages, 1, j))

C2_Witness ==
    /\ pc = "msgs"
    /\ j = Len(messages)
    /\ j = 2
    /\ ~C2_Kept(messages[1])
    /\ C2_Kept(messages[2])
    /\ LinesOfCurrentFile = <<"Type: error, Line: 2, Description: Bad tag">>

(***************************************************************************)
(* C3.  validate() on a remote target makes one GET of the target and then *)
(* one POST to the validator, and the POST uploads the whole body of the   *)
(* GET's response.  (The target is fetchable: the GET is answered.)        *)
(***************************************************************************)
C3_RemoteGetThenPost ==
    (caller = "direct" /\ IsRemote(filename) /\ ~web[filename].neterr) =>
        /\ pc \in {"open", "get"} =>
              \A k \in DOMAIN trace : ~IsPost(trace[k])
        /\ pc = "open" => trace = <<>>
        /\ pc \notin {"open", "get"} =>
              /\ Len(trace) >= 1
              /\ trace[1] = GetEv(filename, web[filename].status)
        /\ pc = "post" => Len(trace) = 1
        /\ pc \in {"json", "returned", "aborted"} =>
              /\ Len(trace) = 2
              /\ IsPost(trace[2])
              /\ trace[2].url = HTML_VALIDATOR_URL
              /\ trace[2].arg = filename
              /\ trace[2].data = web[filename].content

C3_Witness ==
    /\ caller = "direct"
    /\ pc = "returned"
    /\ filename = "https://example.com/page.html"
    /\ web[filename].content = "<img>"
    /\ Len(trace) = 2
    /\ trace[2].data = "<img>"

(***************************************************************************)
(* C4.  validate() on a local target makes no GET and one POST, and the    *)
(* POST uploads the bytes the file holds on disk.  (The target is a        *)
(* readable file.)                                                         *)
(***************************************************************************)
C4_IsLocal(name) ==
    /\ ~(Len(name) >= 7 /\ SubSeq(name, 1, 7) = "http://")
    /\ ~(Len(name) >= 8 /\ SubSeq(name, 1, 8) = "https://")

C4_LocalPostOnly ==
    (caller = "direct" /\ C4_IsLocal(filename) /\ disk[filename].readable) =>
        /\ \A k \in DOMAIN trace : ~IsGet(trace[k])
        /\ pc \in {"open", "post"} => trace = <<>>
        /\ pc \in {"json", "returned", "aborted"} =>
              /\ Len(trace) = 1
              /\ IsPost(trace[1])
              /\ trace[1].url = HTML_VALIDATOR_URL
              /\ trace[1].arg = filename
              /\ trace[1].data = disk[filename].content

C4_Witness ==
    /\ caller = "direct"
    /\ pc = "returned"
    /\ filename = "https.html"
    /\ disk[filename].content = "<p>"
    /\ trace = <<PostEv("https.html", "<p>", 200)>>

(***************************************************************************)
(* C5.  When the validator's answer to the POST is not JSON, validate()    *)
(* ends with a decoding fault: it does not return, and no result, empty    *)
(* or other, reaches the caller.                                           *)
(***************************************************************************)
C5_Answered == \E k \in DOMAIN trace : IsPost(trace[k]) /\ trace[k].status # 0

C6_ErrorStatusRaises ==
    (\E k \in DOMAIN trace : trace[k].status >= 400) => pc # "returned"

(***************************************************************************)
(* C7.  Once a file has faulted the run is over: nothing more is printed   *)
(* and no HTTP call is made, for that file or for any later one.           *)
(***************************************************************************)
C7_AbortEndsBatch == [][fault # "" => (trace' = trace /\ pc' = pc)]_vars

C7_Witness ==
    /\ caller = "batch"
    /\ fault # ""
    /\ \E k \in (i + 1)..Len(entries) :
          /\ Selected(entries[k])
          /\ \A e \in Range(trace) : e.arg # "Processing " \o entries[k]

(***************************************************************************)
(* C8.  The set of diagnostic lines a batch run prints is the same for     *)
(* every order in which the directory may be enumerated.                   *)
(***************************************************************************)
\* validate(name)["messages"] raises
FileFaults(name) ==
    \/ ~disk[name].readable
    \/ service[name].neterr
    \/ ~service[name].decodable
    \/ ~service[name].hasMessages

\* The diagnostic lines of one file that does not fault.
FileDiagnostics(name) ==
    { FormatLine(m) : m \in { x \in Range(service[name].messages) : ~Suppressed(x) } }

\* The diagnostic lines of a whole run over the listing `order`, from entry k on.
RECURSIVE BatchDiagnostics(_, _)
BatchDiagnostics(order, k) ==
    IF k > Len(order) THEN {}
    ELSE IF ~Selected(order[k]) THEN BatchDiagnostics(order, k + 1)
    ELSE IF FileFaults(order[k]) THEN {}
    ELSE FileDiagnostics(order[k]) \cup BatchDiagnostics(order, k + 1)

Reorderings(s) == { o \in [1..Len(s) -> Range(s)] : Range(o) = Range(s) }

Diagnostics == { e.arg : e \in { x \in Range(trace) : IsDiagnostic(x) } }

OpenCount == Cardinality({ k \in DOMAIN files : ~files[k].closed })

C9_ScopedRelease ==
    /\ OpenCount <= 1
    /\ pc \notin {"get", "post"} => OpenCount = 0

C9_Witness ==
    /\ caller = "batch"
    /\ pc = "aborted"
    /\ fault = "ConnectionError"
    /\ Len(files) = 2
    /\ OpenCount = 0

(***************************************************************************)
(* C10.  A file's "Processing" line comes before its POST, its diagnostic  *)
(* lines after the POST and before the next file's "Processing" line; the  *)
(* POSTs made are as many as the "Processing" lines, or one fewer.         *)
(***************************************************************************)
CountOf(Test(_)) == Cardinality({ k \in DOMAIN trace : Test(trace[k]) })

\* The index of the last "Processing" line before position k, 0 if none.
ProcessingBefore(k) ==
    LET S == { l \in 1..(k - 1) : IsProcessing(trace[l]) }
    IN  IF S = {} THEN 0 ELSE CHOOSE l \in S : \A m \in S : m <= l

C10_Sequential ==
    caller = "batch" =>
        /\ CountOf(IsPost) <= CountOf(IsProcessing)
        /\ CountOf(IsProcessing) <= CountOf(IsPost) + 1
        /\ \A k \in DOMAIN trace :
              /\ IsPost(trace[k]) =>
                    /\ ProcessingBefore(k) = k - 1
                    /\ trace[k - 1].arg = "Processing " \o trace[k].arg
              /\ IsDiagnostic(trace[k]) =>
                    /\ ProcessingBefore(k) > 0
                    /\ IsPost(trace[ProcessingBefore(k) + 1])
                    /\ trace[ProcessingBefore(k) + 1].status # 0
                    /\ ProcessingBefore(k) + 1 < k

C10_Witness ==
    /\ caller = "batch"
    /\ pc = "exit"
    /\ CountOf(IsPost) = 2
    /\ Len(trace) = 7
    /\ IsProcessing(trace[1]) /\ IsPost(trace[2]) /\ IsDiagnostic(trace[3])
    /\ IsProcessing(trace[5]) /\ IsPost(trace[6]) /\ IsDiagnostic(trace[7])

====
